---- MODULE Spec2Model ----
(***************************************************************************)
(* A model of arena.h: a growable bump allocator made of a singly linked   *)
(* chain of blocks (newest first).  Machine words (size_t, uintptr_t) are   *)
(* integers modulo 2^W.  The chain is a sequence whose first element is     *)
(* ar->head and whose i+1-th element is the next of the i-th.               *)
(***************************************************************************)
EXTENDS Integers, Sequences, FiniteSets, TLC

VARIABLES st, blocks, pc, call, pre, last, regions, track, fit, live, cached

vars == <<st, blocks, pc, call, pre, last, regions, track, fit, live, cached>>

----------------------------------------------------------------------------
(* Bounds of the model *)

\* width in bits of size_t / uintptr_t in the model
W == 9

\* the reserve function reports exhaustion once the chain has this many blocks
MaxBlocks == 2

\* regions handed out between two resets
MaxAllocs == 2

RECURSIVE Pow2(_)
Pow2(k) ==
    IF k = 0 THEN 1 ELSE 2 * Pow2(k - 1)

\* number of values of a machine word
Word == Pow2(W)

SIZE_MAX == Word - 1

NULL == 0

----------------------------------------------------------------------------
(* Inputs *)

\* (nbytes, alignment) pairs passed to arena_alloc_raw
Requests ==
    { <<0, 4>>, <<1, 1>>, <<4, 4>>, <<4, 16>>, <<SIZE_MAX, 16>>, <<SIZE_MAX, 1>> }

\* capacities passed to arena_create
CreateCaps == {0, 8}

\* capacities passed to arena_push_block by the caller
PushCaps == {5}

\* addresses the reserve function hands out for buffers: a 16-aligned one, a
\* misaligned one, and one whose buffer ends at the top of the address space
ReserveAddrs == {16, 21, Word - 6}

----------------------------------------------------------------------------
(* Address arithmetic *)

align_forward_ptr(p, a) ==
    LET mod == p % a
    IN  IF mod > 0 THEN (p + (a - mod)) % Word ELSE p

align_forward_size(p, a) ==
    LET mod == p % a
    IN  IF mod > 0 THEN (p + (a - mod)) % Word ELSE p

arena_block_get_required(cur, nbytes, alignment) ==
    LET aligned == align_forward_ptr(cur, alignment)
        padding == (aligned + Word - cur) % Word
    IN  (padding + nbytes) % Word

\* Fits with the request compared to the capacity of the block instead of
\* what is left of it
Fits_capacity(blk, nbytes, alignment) ==
    LET cur == (blk.data + blk.offset) % Word
    IN  arena_block_get_required(cur, nbytes, alignment) <= blk.capacity

\* the test of arena_block_alloc_raw: required <= available
Fits(blk, nbytes, alignment) ==
    LET base      == blk.data
        cur       == (base + blk.offset) % Word
        available == (blk.capacity + Word - ((cur + Word - base) % Word)) % Word
    IN  arena_block_get_required(cur, nbytes, alignment) <= available

\* arena_block_alloc_raw returning the start of the free space, before the
\* padding
arena_block_alloc_raw_cur(blk, nbytes, alignment) ==
    LET base     == blk.data
        cur      == (base + blk.offset) % Word
        required == arena_block_get_required(cur, nbytes, alignment)
        off      == (blk.offset + required) % Word
    IN  IF ~Fits(blk, nbytes, alignment)
        THEN [blk |-> blk, p |-> NULL]
        ELSE [blk |-> [blk EXCEPT !.offset = off], p |-> cur]

\* arena_block_alloc_raw with blk->offset = required in place of +=
arena_block_alloc_raw_assign(blk, nbytes, alignment) ==
    LET base     == blk.data
        cur      == (base + blk.offset) % Word
        required == arena_block_get_required(cur, nbytes, alignment)
        off      == required
    IN  IF ~Fits(blk, nbytes, alignment)
        THEN [blk |-> blk, p |-> NULL]
        ELSE [blk |-> [blk EXCEPT !.offset = off],
              p   |-> (base + ((off + Word - nbytes) % Word)) % Word]

\* the result of arena_block_alloc_raw: the block afterwards and the pointer
\* returned.  &blk->data[blk->offset - nbytes] is computed on the flat
\* address space: the index is a size_t and the sum wraps with the word.
arena_block_alloc_raw(blk, nbytes, alignment) ==
    LET base     == blk.data
        cur      == (base + blk.offset) % Word
        required == arena_block_get_required(cur, nbytes, alignment)
        off      == (blk.offset + required) % Word
    IN  IF ~Fits(blk, nbytes, alignment)
        THEN [blk |-> blk, p |-> NULL]
        ELSE [blk |-> [blk EXCEPT !.offset = off],
              p   |-> (base + ((off + Word - nbytes) % Word)) % Word]

\* whether the arithmetic of arena_block_alloc_raw on blk leaves the range of
\* a word: the aligned address, or padding + nbytes
Wraps(blk, nbytes, alignment) ==
    LET cur     == blk.data + blk.offset
        mod     == cur % alignment
        aligned == IF mod > 0 THEN cur + (alignment - mod) ELSE cur
    IN  aligned >= Word \/ (aligned - cur) + nbytes >= Word

----------------------------------------------------------------------------
(* Blocks and the reserve function *)

\* bytes of the address space a buffer of this capacity occupies (a buffer of
\* capacity 0 still has an address of its own)
Span(cap) ==
    IF cap = 0 THEN 1 ELSE cap

\* the buffer [b, b + cap) lies in the address space, is not at NULL and
\* overlaps no buffer of the chain
FreeAt(b, cap, chain) ==
    /\ b # NULL
    /\ b + Span(cap) <= Word - 1
    /\ \A i \in DOMAIN chain :
          \/ b + Span(cap) <= chain[i].data
          \/ chain[i].data + Span(chain[i].capacity) <= b

\* what ar->mem_alloc(NULL, capacity) may return for a buffer when the
\* reserve function hands out the addresses addrs and reports exhaustion
\* once the chain has maxb blocks: NULL, or the address of a fresh buffer
ReserveFrom(addrs, maxb, cap, chain) ==
    {NULL} \cup
    { b \in addrs : Len(chain) < maxb /\ FreeAt(b, cap, chain) }

ReserveOutcomes(cap, chain) ==
    ReserveFrom(ReserveAddrs, MaxBlocks, cap, chain)

\* arena_block_create without .offset = 0 in the initialiser of the record:
\* the offset is what the reserved memory held, here 1
arena_block_create_offset(capacity, rec, data) ==
    IF ~rec
    THEN [ok |-> FALSE, blk |-> <<>>, reserves |-> 1, got |-> 0,
          releases |-> 0]
    ELSE IF data = NULL
    THEN [ok |-> FALSE, blk |-> <<>>, reserves |-> 2, got |-> 1,
          releases |-> 1]
    ELSE [ok |-> TRUE,
          blk |-> [data |-> data, offset |-> 1, capacity |-> capacity],
          reserves |-> 2, got |-> 2, releases |-> 0]

\* arena_block_create without mem_free(NULL, blk) when the buffer could not
\* be reserved
arena_block_create_leak(capacity, rec, data) ==
    IF ~rec
    THEN [ok |-> FALSE, blk |-> <<>>, reserves |-> 1, got |-> 0,
          releases |-> 0]
    ELSE IF data = NULL
    THEN [ok |-> FALSE, blk |-> <<>>, reserves |-> 2, got |-> 1,
          releases |-> 0]
    ELSE [ok |-> TRUE,
          blk |-> [data |-> data, offset |-> 0, capacity |-> capacity],
          reserves |-> 2, got |-> 2, releases |-> 0]

\* arena_block_create without the test data == NULL
arena_block_create_unchecked(capacity, rec, data) ==
    IF ~rec
    THEN [ok |-> FALSE, blk |-> <<>>, reserves |-> 1, got |-> 0,
          releases |-> 0]
    ELSE [ok |-> TRUE,
          blk |-> [data |-> data, offset |-> 0, capacity |-> capacity],
          reserves |-> 2, got |-> IF data = NULL THEN 1 ELSE 2,
          releases |-> 0]

\* arena_block_create, given what the two mem_alloc calls return: rec says
\* whether the block record was reserved, data is the buffer's address.
\* reserves and releases count the calls of mem_alloc and mem_free, got the
\* calls of mem_alloc that returned memory.
arena_block_create(capacity, rec, data) ==
    IF ~rec
    THEN [ok |-> FALSE, blk |-> <<>>, reserves |-> 1, got |-> 0,
          releases |-> 0]
    ELSE IF data = NULL
    THEN [ok |-> FALSE, blk |-> <<>>, reserves |-> 2, got |-> 1,
          releases |-> 1]
    ELSE [ok |-> TRUE,
          blk |-> [data |-> data, offset |-> 0, capacity |-> capacity],
          reserves |-> 2, got |-> 2, releases |-> 0]

\* arena_push_block without blk->next = ar->head: the new block replaces
\* the chain
arena_push_block_unlinked(chain, c) ==
    IF c.ok THEN <<c.blk>> ELSE chain

\* arena_push_block: the chain afterwards (the new block becomes head)
arena_push_block(chain, c) ==
    IF c.ok THEN <<c.blk>> \o chain ELSE chain

\* the sizes below 1024 whose product with the double 1.15 falls just under
\* the next integer, so that the truncated product is one less than
\* floor(n * 115 / 100)
InexactProducts ==
    {100, 180, 200, 220, 340, 360, 380, 400, 420, 440, 660, 680, 700, 720,
     740, 760, 780, 800, 820, 840, 860, 880}

\* the values (size_t)(new_cap * ARENA_GROW_FACTOR) may take.  The product is
\* a double, truncated on conversion.  A product that does not fit a size_t
\* makes the conversion undefined: builds give 0 (the two-step conversion of
\* x86-64), the value with only the top bit set (the "integer indefinite" of
\* a signed conversion instruction) or SIZE_MAX (a saturating conversion).
\* The rounding of a size_t above 2^53 to a double does not arise below
\* W = 54.
GrowCaps(new_cap) ==
    LET exact == (new_cap * 115) \div 100
        prod  == IF new_cap \in InexactProducts THEN exact - 1 ELSE exact
    IN  IF prod < Word THEN {prod} ELSE {0, Word \div 2, SIZE_MAX}

\* the loop of arena_alloc_raw over the chain, from the i-th block on: the
\* chain afterwards, the pointer returned (NULL when no block gave one), the
\* index of the block that gave it, whether the arithmetic wrapped on that
\* block (wrapped), and whether some block passed the test
\* required <= available with wrapped arithmetic (wcommit)
RECURSIVE Search(_, _, _, _, _)
Search(chain, i, nbytes, alignment, wc) ==
    IF i > Len(chain)
    THEN [blocks |-> chain, p |-> NULL, idx |-> 0, wrapped |-> FALSE,
          wcommit |-> wc]
    ELSE LET r      == arena_block_alloc_raw(chain[i], nbytes, alignment)
             chain2 == [chain EXCEPT ![i] = r.blk]
             w      == Wraps(chain[i], nbytes, alignment)
             passed == Fits(chain[i], nbytes, alignment)
             wc2    == wc \/ (w /\ passed)
         IN  IF r.p # NULL
             THEN [blocks |-> chain2, p |-> r.p, idx |-> i, wrapped |-> w,
                   wcommit |-> wc2]
             ELSE Search(chain2, i + 1, nbytes, alignment, wc2)

\* arena_reset without the cur->offset = 0 that follows the loop: the last
\* block keeps its offset
arena_reset_loop_only(chain) ==
    [i \in DOMAIN chain |->
       IF i < Len(chain) THEN [chain[i] EXCEPT !.offset = 0] ELSE chain[i]]

\* arena_reset on a chain with at least one block
arena_reset(chain) ==
    [i \in DOMAIN chain |-> [chain[i] EXCEPT !.offset = 0]]

\* arena_block_destroy on the i-th block of the chain: b->data is read from
\* the record, the buffer is given to mem_free, then the record
arena_block_destroy(i) ==
    << [ev |-> "read", blk |-> i],
       [ev |-> "free_data", blk |-> i],
       [ev |-> "free_rec", blk |-> i] >>

\* arena_destroy with next = cur->next read after arena_block_destroy(cur)
RECURSIVE DestroyFrom_late(_, _)
DestroyFrom_late(chain, i) ==
    IF i < Len(chain)
    THEN << [ev |-> "read", blk |-> i] >> \o arena_block_destroy(i)
         \o << [ev |-> "read", blk |-> i] >> \o DestroyFrom_late(chain, i + 1)
    ELSE << [ev |-> "read", blk |-> i] >> \o arena_block_destroy(i)

\* arena_destroy from the i-th block on, as the sequence of reads of block
\* records and calls of mem_free: the test cur->next != NULL, then
\* next = cur->next, then arena_block_destroy(cur)
RECURSIVE DestroyFrom(_, _)
DestroyFrom(chain, i) ==
    IF i < Len(chain)
    THEN << [ev |-> "read", blk |-> i], [ev |-> "read", blk |-> i] >>
         \o arena_block_destroy(i) \o DestroyFrom(chain, i + 1)
    ELSE << [ev |-> "read", blk |-> i] >> \o arena_block_destroy(i)

\* arena_destroy on a chain with at least one block
arena_destroy(chain) ==
    DestroyFrom(chain, 1)

\* the calls of mem_free in a sequence of events
Frees(events) ==
    Cardinality({k \in DOMAIN events : events[k].ev # "read"})

\* the loop of arena_block_count from the i-th block on
RECURSIVE CountFrom(_, _)
CountFrom(chain, i) ==
    IF i > Len(chain) THEN 0
    ELSE (1 + CountFrom(chain, i + 1)) % Word

arena_block_count(chain) ==
    CountFrom(chain, 1)

RECURSIVE SumCap(_, _)
SumCap(chain, i) ==
    IF i > Len(chain) THEN 0
    ELSE (chain[i].capacity + SumCap(chain, i + 1)) % Word

arena_total_capacity(chain) ==
    SumCap(chain, 1)

----------------------------------------------------------------------------
(* State *)

\* st: "none" before arena_create and after arena_destroy, "live" in between,
\*     "crashed" after a null dereference
\* blocks: the chain, head first
\* pc, call, pre: an arena_alloc_raw call that found no block is at "grow";
\*     call holds its arguments and what it did so far, pre the chain at the
\*     start of the call
\* last: the last operation that returned and its result
\* regions: the regions returned since the last arena_reset
\* track, fit: where track is set, fit holds the requests that succeeded
\*     since arena_create
\* live: reservations obtained from mem_alloc and not yet given to mem_free
\* cached: the block_count and total_capacity fields the older revision of
\*     the allocator keeps in struct ArenaAllocator (arena.h has neither)

NoCache ==
    [block_count |-> 0, total_capacity |-> 0]

NoCall ==
    [n |-> 0, a |-> 1, depth |-> 0, reserves |-> 0, releases |-> 0,
     refit |-> FALSE, wcommit |-> FALSE]

\* op: the operation; n, a: its arguments; ret: the pointer (or 1/0 for the
\* bool of arena_push_block); idx: the block that gave the region; depth:
\* blocks pushed by the call; reserves, releases: calls of mem_alloc and
\* mem_free; resfail: a reservation failed; refit: the request had succeeded
\* before and the call directly follows an arena_reset; dirty: blocks with a
\* non-zero offset before an arena_reset; events: what arena_destroy did to
\* the blocks, in order; after: for an arena_create, the number of blocks of
\* the arena that was destroyed just before it
NoOp ==
    [op |-> "none", n |-> 0, a |-> 1, ret |-> NULL, idx |-> 0, depth |-> 0,
     wrapped |-> FALSE, wcommit |-> FALSE, refit |-> FALSE, reserves |-> 0,
     releases |-> 0, resfail |-> FALSE, dirty |-> 0, events |-> <<>>,
     after |-> 0]

Miss(chain, wc) ==
    [blocks |-> chain, p |-> NULL, idx |-> 0, wrapped |-> FALSE, wcommit |-> wc]

Init ==
    /\ st = "none"
    /\ blocks = <<>>
    /\ pc = "idle"
    /\ call = NoCall
    /\ pre = <<>>
    /\ last = NoOp
    /\ regions = {}
    /\ track = FALSE
    /\ fit = {}
    /\ live = 0
    /\ cached = NoCache

\* ar = arena_create(NULL, NULL, capacity) with a reserve function that
\* hands out the addresses addrs
CreateWith(addrs, maxb, capacity) ==
    /\ st = "none"
    /\ \E rec \in BOOLEAN, data \in ReserveFrom(addrs, maxb, capacity, <<>>) :
          LET c == arena_block_create(capacity, rec, data)
          IN  /\ blocks' = IF c.ok THEN <<c.blk>> ELSE <<>>
              /\ live' = live + c.got - c.releases
              /\ last' = [NoOp EXCEPT !.op = "create", !.n = capacity,
                                      !.reserves = c.reserves,
                                      !.releases = c.releases,
                                      !.resfail = (~rec \/ data = NULL),
                                      !.after = IF last.op = "destroy"
                                                THEN last.n ELSE 0]
    /\ st' = "live"
    /\ regions' = {}
    /\ fit' = {}
    /\ UNCHANGED <<pc, call, pre, track, cached>>

Create(capacity) ==
    CreateWith(ReserveAddrs, MaxBlocks, capacity)

\* arena_push_block(ar, capacity), called by the user
PushBlock(capacity) ==
    /\ st = "live" /\ pc = "idle"
    /\ \E rec \in BOOLEAN, data \in ReserveOutcomes(capacity, blocks) :
          LET c == arena_block_create(capacity, rec, data)
          IN  /\ blocks' = arena_push_block(blocks, c)
              /\ live' = live + c.got - c.releases
              /\ last' = [NoOp EXCEPT !.op = "push", !.n = capacity,
                                      !.ret = IF c.ok THEN 1 ELSE 0,
                                      !.depth = IF c.ok THEN 1 ELSE 0,
                                      !.reserves = c.reserves,
                                      !.releases = c.releases,
                                      !.resfail = ~c.ok]
    /\ UNCHANGED <<st, pc, call, pre, regions, track, fit, cached>>

\* the end of an arena_alloc_raw call: s is the result of its last search,
\* cl what the call did
Return(s, cl, resfail) ==
    /\ blocks' = s.blocks
    /\ pc' = "idle"
    /\ call' = NoCall
    /\ pre' = <<>>
    /\ last' = [NoOp EXCEPT !.op = "alloc", !.n = cl.n, !.a = cl.a,
                            !.ret = s.p, !.idx = s.idx, !.depth = cl.depth,
                            !.wrapped = s.wrapped, !.wcommit = s.wcommit,
                            !.refit = cl.refit, !.reserves = cl.reserves,
                            !.releases = cl.releases, !.resfail = resfail]
    /\ regions' = IF s.p # NULL
                  THEN regions \cup {[p |-> s.p, n |-> cl.n,
                                      wrapped |-> s.wrapped,
                                      id |-> Cardinality(regions) + 1]}
                  ELSE regions
    /\ fit' = IF track /\ s.p # NULL THEN fit \cup {<<cl.n, cl.a>>} ELSE fit

\* arena_alloc_raw without the test nbytes == 0
AllocCall_nozero(n, a) ==
    /\ st = "live" /\ pc = "idle"
    /\ LET cl == [NoCall EXCEPT !.n = n, !.a = a,
                                !.refit = (last.op = "reset" /\ <<n, a>> \in fit)]
           s  == Search(blocks, 1, n, a, FALSE)
       IN  IF s.p # NULL
           THEN Return(s, cl, FALSE)
           ELSE /\ blocks' = s.blocks
                /\ pre' = blocks
                /\ pc' = "grow"
                /\ call' = [cl EXCEPT !.wcommit = s.wcommit]
                /\ UNCHANGED <<last, regions, fit>>
    /\ UNCHANGED <<st, track, live, cached>>

\* arena_alloc_raw(ar, nbytes, alignment) up to its return or to the point
\* where no block of the chain gave a region
AllocCall(n, a) ==
    /\ st = "live" /\ pc = "idle"
    /\ LET cl == [NoCall EXCEPT !.n = n, !.a = a,
                                !.refit = (last.op = "reset" /\ <<n, a>> \in fit)]
           s  == Search(blocks, 1, n, a, FALSE)
       IN  IF n = 0
           THEN Return(Miss(blocks, FALSE), cl, FALSE)
           ELSE IF s.p # NULL
           THEN Return(s, cl, FALSE)
           ELSE /\ blocks' = s.blocks
                /\ pre' = blocks
                /\ pc' = "grow"
                /\ call' = [cl EXCEPT !.wcommit = s.wcommit]
                /\ UNCHANGED <<last, regions, fit>>
    /\ UNCHANGED <<st, track, live, cached>>

\* a call of arena_alloc_raw while fewer than MaxAllocs regions are handed
\* out
Alloc(n, a) ==
    /\ Cardinality(regions) < MaxAllocs
    /\ AllocCall(n, a)

\* the rest of arena_alloc_raw: push a block of align_forward_size(nbytes,
\* alignment) * ARENA_GROW_FACTOR bytes and, if that worked, call
\* arena_alloc_raw again; the reserve function hands out the addresses addrs
GrowWith(addrs, maxb) ==
    /\ st = "live" /\ pc = "grow"
    /\ LET new_cap == align_forward_size(call.n, call.a)
       IN  \E cap \in GrowCaps(new_cap), rec \in BOOLEAN :
           \E data \in ReserveFrom(addrs, maxb, cap, blocks) :
              LET c  == arena_block_create(cap, rec, data)
                  s  == Search(arena_push_block(blocks, c), 1, call.n, call.a,
                               call.wcommit)
                  cl == [call EXCEPT !.reserves = @ + c.reserves,
                                     !.releases = @ + c.releases,
                                     !.depth = IF c.ok THEN @ + 1 ELSE @,
                                     !.wcommit = s.wcommit]
              IN  /\ live' = live + c.got - c.releases
                  /\ IF ~c.ok
                     THEN Return(Miss(blocks, call.wcommit), cl, TRUE)
                     ELSE IF s.p # NULL
                     THEN Return(s, cl, FALSE)
                     ELSE /\ blocks' = s.blocks
                          /\ call' = cl
                          /\ UNCHANGED <<pc, pre, last, regions, fit>>
    /\ UNCHANGED <<st, track, cached>>

AllocGrow ==
    GrowWith(ReserveAddrs, MaxBlocks)

\* arena_reset(ar); with ar->head == NULL the first cur->next is a null
\* dereference and the program stops
Reset ==
    /\ st = "live" /\ pc = "idle"
    /\ IF blocks = <<>>
       THEN /\ st' = "crashed"
            /\ UNCHANGED <<blocks, last, regions>>
       ELSE /\ blocks' = arena_reset(blocks)
            /\ last' = [NoOp EXCEPT !.op = "reset",
                          !.dirty = Cardinality({i \in DOMAIN blocks :
                                                   blocks[i].offset > 0})]
            /\ regions' = {}
            /\ UNCHANGED st
    /\ UNCHANGED <<pc, call, pre, track, fit, live, cached>>

\* arena_destroy(ar); with ar->head == NULL the first cur->next is a null
\* dereference and the program stops
Destroy ==
    /\ st = "live" /\ pc = "idle"
    /\ IF blocks = <<>>
       THEN /\ st' = "crashed"
            /\ UNCHANGED <<blocks, last, regions, live>>
       ELSE LET events == arena_destroy(blocks)
            IN  /\ blocks' = <<>>
                /\ st' = "none"
                /\ live' = live - Frees(events)
                /\ last' = [NoOp EXCEPT !.op = "destroy",
                                        !.n = Len(blocks),
                                        !.releases = Frees(events),
                                        !.events = events]
                /\ regions' = {}
    /\ UNCHANGED <<pc, call, pre, track, fit, cached>>

Next ==
    \/ \E c \in CreateCaps : Create(c)
    \/ \E c \in PushCaps : PushBlock(c)
    \/ \E r \in Requests : Alloc(r[1], r[2])
    \/ AllocGrow
    \/ Reset
    \/ Destroy

Spec == Init /\ [][Next]_vars

\* the same program with the history of successful requests recorded
InitRefit ==
    /\ st = "none"
    /\ blocks = <<>>
    /\ pc = "idle"
    /\ call = NoCall
    /\ pre = <<>>
    /\ last = NoOp
    /\ regions = {}
    /\ track = TRUE
    /\ fit = {}
    /\ live = 0
    /\ cached = NoCache

SpecRefit == InitRefit /\ [][Next]_vars

----------------------------------------------------------------------------
(* The alignment sweep: one block of SweepCap bytes at every residue modulo *)
(* 16 whose first offset bytes are in use, as after arena_create(SweepCap)  *)
(* and arena_alloc_raw(ar, offset, 1).                                      *)

SweepCap == 40

SweepMaxOffset == 17

SweepBases == 1 .. 16

InitSweep ==
    \E b \in SweepBases, o \in 0 .. SweepMaxOffset :
       /\ st = "live"
       /\ blocks = <<[data |-> b, offset |-> o, capacity |-> SweepCap]>>
       /\ pc = "idle"
       /\ call = NoCall
       /\ pre = <<>>
       /\ last = IF o = 0
                 THEN [NoOp EXCEPT !.op = "create", !.n = SweepCap,
                                   !.reserves = 2]
                 ELSE [NoOp EXCEPT !.op = "alloc", !.n = o, !.ret = b,
                                   !.idx = 1]
       /\ regions = IF o = 0 THEN {}
                    ELSE {[p |-> b, n |-> o, wrapped |-> FALSE, id |-> 1]}
       /\ track = FALSE
       /\ fit = {}
       /\ live = 2
    /\ cached = NoCache

NextSweep ==
    \/ \E r \in Requests : Alloc(r[1], r[2])
    \/ AllocGrow

SpecSweep == InitSweep /\ [][NextSweep]_vars

----------------------------------------------------------------------------
(* Requests of size 0, with every kind of alignment argument, between the   *)
(* other operations                                                         *)

\* alignments passed with a size of 0: 1, powers of two, and a value that
\* is not a power of two
ZeroAligns == {1, 2, 3, 16}

\* the requests of non-zero size made between them
FillRequests ==
    { <<1, 1>>, <<4, 16>> }

\* arena_alloc_raw(ar, 0, alignment)
ZeroAlloc(a) ==
    AllocCall(0, a)

NextZero ==
    \/ \E c \in CreateCaps : Create(c)
    \/ \E c \in PushCaps : PushBlock(c)
    \/ \E r \in FillRequests : Alloc(r[1], r[2])
    \/ \E a \in ZeroAligns : ZeroAlloc(a)
    \/ AllocGrow
    \/ Reset
    \/ Destroy

SpecZero == Init /\ [][NextZero]_vars

----------------------------------------------------------------------------
(* The scenario of test.c, with the default reserve function (malloc)       *)

\* the capacity test.c creates its arena with
TestCapacity == 200

\* addresses malloc hands out: aligned for any object
TestAddrs ==
    { 8 * k : k \in 1 .. 63 }

\* the requests of test.c up to its arena_reset: 49 ints, an int, an int
TestScript ==
    << <<49 * 4, 4>>, <<4, 4>>, <<4, 4>> >>

\* the request of 30 ints
LargeRequest ==
    <<30 * 4, 4>>

TestCreate ==
    CreateWith(TestAddrs, Cardinality(TestAddrs), TestCapacity)

\* the next request of the script, after the arena_create or the request
\* before it succeeded
TestAlloc ==
    \E k \in DOMAIN TestScript :
       /\ Cardinality(regions) = k - 1
       /\ IF k = 1
          THEN last.op = "create" /\ ~last.resfail
          ELSE /\ last.op = "alloc" /\ last.ret # NULL
               /\ <<last.n, last.a>> = TestScript[k - 1]
       /\ AllocCall(TestScript[k][1], TestScript[k][2])

\* the request of 30 ints, after the arena_reset as in test.c or directly
\* after the script
TestLarge ==
    /\ \/ last.op = "reset"
       \/ /\ last.op = "alloc" /\ last.ret # NULL
          /\ Cardinality(regions) = Len(TestScript)
    /\ AllocCall(LargeRequest[1], LargeRequest[2])

TestGrow ==
    GrowWith(TestAddrs, Cardinality(TestAddrs))

TestReset ==
    /\ last.op = "alloc" /\ last.ret # NULL
    /\ Cardinality(regions) = Len(TestScript)
    /\ Reset

\* arena_destroy at the end of the test, or after a request that failed
TestDestroy ==
    /\ last.op = "alloc"
    /\ last.ret = NULL \/ <<last.n, last.a>> = LargeRequest
    /\ Destroy

NextTest ==
    \/ TestCreate
    \/ TestAlloc
    \/ TestLarge
    \/ TestGrow
    \/ TestReset
    \/ TestDestroy

SpecTest == Init /\ [][NextTest]_vars

----------------------------------------------------------------------------
(* The older revision of the allocator (arena.c with cached counters).  Its *)
(* struct ArenaAllocator holds block_count and total_capacity next to head; *)
(* st is "old" while an arena of that revision is in use.                   *)

\* arena_push of the older revision, given the result c of
\* arena_block_create: the chain and the counters afterwards
old_arena_push_count_only(cache, chain, c) ==
    IF ~c.ok THEN [blocks |-> chain, cached |-> cache]
    ELSE [blocks |-> <<c.blk>> \o chain,
          cached |-> [cache EXCEPT !.block_count = (@ + 1) % Word]]

old_arena_push(cache, chain, c) ==
    IF ~c.ok THEN [blocks |-> chain, cached |-> cache]
    ELSE [blocks |-> <<c.blk>> \o chain,
          cached |-> [block_count    |-> (cache.block_count + 1) % Word,
                      total_capacity |->
                          (cache.total_capacity + c.blk.capacity) % Word]]

\* the body of arena_alloc_align on the head block: whether the request
\* passes required <= capacity, the block afterwards and the pointer returned
old_arena_alloc_align(blk, nbytes, alignment) ==
    LET base     == blk.data
        cur      == (base + blk.offset) % Word
        aligned  == align_forward_ptr(cur, alignment)
        required == (((aligned + Word - base) % Word) + nbytes) % Word
        step     == (((aligned + Word - cur) % Word) + nbytes) % Word
    IN  [fits |-> required <= blk.capacity,
         blk  |-> [blk EXCEPT !.offset = (@ + step) % Word],
         p    |-> (base + aligned) % Word]

\* (nbytes, alignment) pairs passed to arena_alloc_align
OldRequests ==
    { <<0, 4>>, <<1, 1>>, <<4, 4>>, <<4, 16>> }

\* ar = arena_create(capacity)
OldCreate(capacity) ==
    /\ st = "none"
    /\ \E rec \in BOOLEAN, data \in ReserveOutcomes(capacity, <<>>) :
          LET c == arena_block_create(capacity, rec, data)
          IN  /\ blocks' = IF c.ok THEN <<c.blk>> ELSE <<>>
              /\ cached' = IF c.ok
                           THEN [block_count |-> 1,
                                 total_capacity |-> c.blk.capacity]
                           ELSE NoCache
              /\ live' = live + c.got - c.releases
              /\ last' = [NoOp EXCEPT !.op = "create", !.n = capacity,
                                      !.resfail = ~c.ok]
    /\ st' = "old"
    /\ UNCHANGED <<pc, call, pre, regions, track, fit>>

\* arena_push(ar, capacity), called by the user
OldPush(capacity) ==
    /\ st = "old" /\ pc = "idle"
    /\ \E rec \in BOOLEAN, data \in ReserveOutcomes(capacity, blocks) :
          LET c == arena_block_create(capacity, rec, data)
              r == old_arena_push(cached, blocks, c)
          IN  /\ blocks' = r.blocks
              /\ cached' = r.cached
              /\ live' = live + c.got - c.releases
              /\ last' = [NoOp EXCEPT !.op = "push", !.n = capacity,
                                      !.ret = IF c.ok THEN 1 ELSE 0]
    /\ UNCHANGED <<st, pc, call, pre, regions, track, fit>>

\* arena_alloc_align(ar, nbytes, alignment) up to its return or to the call
\* of arena_push; with ar->head == NULL, blk->data is a null dereference
OldAlloc(n, a) ==
    /\ st = "old" /\ pc = "idle"
    /\ IF n = 0
       THEN /\ last' = [NoOp EXCEPT !.op = "alloc", !.n = n, !.a = a]
            /\ UNCHANGED <<st, blocks, pc, call>>
       ELSE IF blocks = <<>>
       THEN /\ st' = "crashed"
            /\ UNCHANGED <<blocks, pc, call, last>>
       ELSE LET r == old_arena_alloc_align(blocks[1], n, a)
            IN  IF r.fits
                THEN /\ blocks' = [blocks EXCEPT ![1] = r.blk]
                     /\ last' = [NoOp EXCEPT !.op = "alloc", !.n = n, !.a = a,
                                             !.ret = r.p, !.idx = 1]
                     /\ UNCHANGED <<st, pc, call>>
                ELSE /\ pc' = "grow"
                     /\ call' = [NoCall EXCEPT !.n = n, !.a = a]
                     /\ UNCHANGED <<st, blocks, last>>
    /\ UNCHANGED <<pre, regions, track, fit, live, cached>>

\* the rest of arena_alloc_align: arena_push(ar, nbytes * ARENA_GROW_FACTOR),
\* whose result is ignored, then the same call again.  When the push failed
\* the call repeats on the same state without end and the program stops when
\* the stack is exhausted.
OldAllocGrow ==
    /\ st = "old" /\ pc = "grow"
    /\ \E cap \in GrowCaps(call.n), rec \in BOOLEAN :
       \E data \in ReserveOutcomes(cap, blocks) :
          LET c  == arena_block_create(cap, rec, data)
              r  == old_arena_push(cached, blocks, c)
              t  == old_arena_alloc_align(r.blocks[1], call.n, call.a)
          IN  /\ live' = live + c.got - c.releases
              /\ cached' = r.cached
              /\ IF ~c.ok
                 THEN /\ st' = "crashed"
                      /\ UNCHANGED <<blocks, pc, call, last>>
                 ELSE IF t.fits
                 THEN /\ blocks' = [r.blocks EXCEPT ![1] = t.blk]
                      /\ pc' = "idle"
                      /\ call' = NoCall
                      /\ last' = [NoOp EXCEPT !.op = "alloc", !.n = call.n,
                                              !.a = call.a, !.ret = t.p,
                                              !.idx = 1,
                                              !.depth = call.depth + 1]
                      /\ UNCHANGED st
                 ELSE /\ blocks' = r.blocks
                      /\ call' = [call EXCEPT !.depth = @ + 1]
                      /\ UNCHANGED <<st, pc, last>>
    /\ UNCHANGED <<pre, regions, track, fit>>

\* arena_reset(ar) of the older revision (the same loop as in arena.h)
OldReset ==
    /\ st = "old" /\ pc = "idle"
    /\ IF blocks = <<>>
       THEN /\ st' = "crashed"
            /\ UNCHANGED <<blocks, last>>
       ELSE /\ blocks' = arena_reset(blocks)
            /\ last' = [NoOp EXCEPT !.op = "reset"]
            /\ UNCHANGED st
    /\ UNCHANGED <<pc, call, pre, regions, track, fit, live, cached>>

\* arena_destroy(ar) of the older revision: the chain is released and the
\* counters are set to 0
OldDestroy ==
    /\ st = "old" /\ pc = "idle"
    /\ IF blocks = <<>>
       THEN /\ st' = "crashed"
            /\ UNCHANGED <<blocks, last, live, cached>>
       ELSE /\ blocks' = <<>>
            /\ cached' = NoCache
            /\ st' = "none"
            /\ live' = live - 2 * Len(blocks)
            /\ last' = [NoOp EXCEPT !.op = "destroy",
                                    !.releases = 2 * Len(blocks)]
    /\ UNCHANGED <<pc, call, pre, regions, track, fit>>

NextOld ==
    \/ \E c \in CreateCaps : OldCreate(c)
    \/ \E c \in PushCaps : OldPush(c)
    \/ \E r \in OldRequests : OldAlloc(r[1], r[2])
    \/ OldAllocGrow
    \/ OldReset
    \/ OldDestroy

\* a program that uses either revision for the lifetime of an arena
NextRevisions ==
    \/ Next
    \/ NextOld

SpecRevisions == Init /\ [][NextRevisions]_vars

----------------------------------------------------------------------------
(* Claims *)

\* an arena_alloc_raw call has returned a region
Returned ==
    pc = "idle" /\ last.op = "alloc" /\ last.ret # NULL

\* C1: every region arena_alloc_raw returns starts at a multiple of the
\* alignment asked for, whatever the address of the block's buffer and the
\* offset the block had, in an old block or in a freshly pushed one.
C1_Aligned ==
    Returned => last.ret % last.a = 0

\* C1 witness: a 16-aligned region was carved, after padding, from a block
\* whose first 17 bytes were in use.
C1_Witness ==
    /\ Returned /\ last.a = 16 /\ last.idx = 1 /\ Len(blocks) = 1
    /\ \E r \in regions :
          /\ r.id = 1 /\ r.n = SweepMaxOffset /\ r.p = blocks[1].data
          /\ last.ret > r.p + r.n
          /\ last.ret - (r.p + r.n) < 16

\* the bytes of two regions are disjoint
Disjoint(r1, r2) ==
    r1.p + r1.n <= r2.p \/ r2.p + r2.n <= r1.p

\* C2: two regions returned since the last arena_reset (or arena_create)
\* never overlap, as long as the arithmetic that produced them did not wrap.
C2_NoOverlap ==
    \A r1, r2 \in regions :
       (r1 # r2 /\ ~r1.wrapped /\ ~r2.wrapped) => Disjoint(r1, r2)

\* C2 witness: two regions are live in the same block, the second one after
\* padding.
C2_Witness ==
    /\ Returned /\ ~last.wrapped
    /\ \E r1, r2 \in regions :
          /\ r1.id = 1 /\ r2.id = 2 /\ ~r1.wrapped /\ ~r2.wrapped
          /\ r1.p + r1.n < r2.p
          /\ r2.p + r2.n = blocks[last.idx].data + blocks[last.idx].offset
          /\ blocks[last.idx].data <= r1.p

\* the blocks whose buffer holds all of [p, p + n)
Holders(p, n) ==
    { i \in DOMAIN blocks :
        /\ blocks[i].data <= p
        /\ p + n <= blocks[i].data + blocks[i].capacity }

\* C3: a region returned without wrapped arithmetic lies inside the buffer
\* of exactly one block, the one that gave it, and ends at that block's new
\* offset.
C3_InsideBlock ==
    (Returned /\ ~last.wrapped) =>
       /\ Holders(last.ret, last.n) = {last.idx}
       /\ last.ret + last.n =
             blocks[last.idx].data + blocks[last.idx].offset

\* C3 witness: a region was carved from a block that is not the head and
\* fills it to the last byte.
C3_Witness ==
    /\ Returned /\ ~last.wrapped /\ last.idx = 2
    /\ blocks[2].offset = blocks[2].capacity

\* C4: arithmetic that wraps never passes the test required <= available: a
\* request whose padding + size (or aligned address) wraps gets NULL and
\* changes no offset.
C4_NoWrappedCommit ==
    (pc = "idle" /\ last.op = "alloc") => ~last.wcommit

\* C5: every block of the chain has 0 <= offset <= capacity, in every state.
C5_OffsetInRange ==
    \A i \in DOMAIN blocks :
       0 <= blocks[i].offset /\ blocks[i].offset <= blocks[i].capacity

\* C5 witness: after a call that grew the chain, one block is full and
\* another partly used.
C5_Witness ==
    /\ pc = "idle" /\ last.op = "alloc" /\ last.depth = 1 /\ Len(blocks) = 2
    /\ blocks[1].offset > 0 /\ blocks[1].offset < blocks[1].capacity
    /\ blocks[2].offset = blocks[2].capacity /\ blocks[2].capacity > 0

\* C6: arena_reset on a chain with at least one block sets every offset to
\* 0 and leaves the number of blocks, the total capacity, every block's
\* buffer and capacity and the order of the chain as they were, without a
\* call of mem_alloc or mem_free.
C6_ResetFrame ==
    [][(Reset /\ blocks # <<>>) =>
          /\ \A i \in DOMAIN blocks' : blocks'[i].offset = 0
          /\ arena_block_count(blocks') = arena_block_count(blocks)
          /\ arena_total_capacity(blocks') = arena_total_capacity(blocks)
          /\ \A i \in DOMAIN blocks :
                /\ blocks'[i].data = blocks[i].data
                /\ blocks'[i].capacity = blocks[i].capacity
          /\ last'.reserves = 0 /\ last'.releases = 0
          /\ live' = live]_vars

\* C6 witness: arena_reset has run on a chain of two blocks that both had a
\* non-zero offset.
C6_Witness ==
    /\ pc = "idle" /\ last.op = "reset" /\ last.dirty = 2
    /\ Len(blocks) = 2
    /\ blocks[1].offset = 0 /\ blocks[2].offset = 0

\* C7: a request that succeeded before an arena_reset succeeds again when
\* issued right after it, and pushes no block.
C7_RefitSucceeds ==
    (pc = "idle" /\ last.op = "alloc" /\ last.refit) =>
       (last.ret # NULL /\ last.depth = 0)

\* C8: once arena_alloc_raw has pushed a block, the retried search succeeds
\* in that block, the new head.
C8_RetrySucceeds ==
    /\ pc = "grow" => call.depth = 0
    /\ (pc = "idle" /\ last.op = "alloc" /\ last.depth > 0) =>
          (last.ret # NULL /\ last.idx = 1)

\* C9: an arena_alloc_raw call comes to its end after at most one growth
\* attempt, that is one arena_block_create and so at most two calls of
\* mem_alloc, whatever mem_alloc returns.
C9_OneGrowthAttempt ==
    (pc = "idle" /\ last.op = "alloc") => last.reserves <= 2

\* C10: a call in which a reservation failed returns NULL (false for
\* arena_push_block) and leaves the chain as it was when the call began.
C10_FailedReserveNoChange ==
    [][/\ (AllocGrow /\ pc' = "idle" /\ last'.resfail) =>
             (last'.ret = NULL /\ blocks' = pre)
       /\ ((\E c \in PushCaps : PushBlock(c)) /\ last'.resfail) =>
             (last'.ret = 0 /\ blocks' = blocks)]_vars

\* the sum of the capacities of the blocks of a chain, as an integer
RECURSIVE CapacitySum(_, _)
CapacitySum(chain, i) ==
    IF i > Len(chain) THEN 0
    ELSE chain[i].capacity + CapacitySum(chain, i + 1)

\* C11: the block count equals the number of blocks reachable from head and
\* the total capacity equals the sum of their capacities, both where the
\* values are computed by walking the chain (arena.h) and where they are
\* the counters the older revision updates on create, push and destroy.
C11_CountersMatchChain ==
    /\ arena_block_count(blocks) = Len(blocks)
    /\ arena_total_capacity(blocks) = CapacitySum(blocks, 1)
    /\ st \in {"old", "none"} =>
          /\ cached.block_count = Len(blocks)
          /\ cached.total_capacity = CapacitySum(blocks, 1)

\* an arena of the older revision with two blocks of different capacities,
\* one of them pushed by an allocation
C11_Witness ==
    /\ st = "old" /\ pc = "idle"
    /\ last.op = "alloc" /\ last.depth = 1
    /\ Len(blocks) = 2
    /\ cached.block_count = 2
    /\ cached.total_capacity = blocks[1].capacity + blocks[2].capacity
    /\ blocks[1].capacity # blocks[2].capacity

\* C12: across allocations, pushes and resets the block count and the total
\* capacity never decrease; a step that lowers either of them is an
\* arena_destroy.
C12_CountersNeverDecrease ==
    [][(\/ arena_block_count(blocks') < arena_block_count(blocks)
        \/ arena_total_capacity(blocks') < arena_total_capacity(blocks))
       => (Destroy /\ blocks # <<>>)]_vars

\* a second block was pushed by the caller while no region was handed out
C12_Witness ==
    /\ st = "live" /\ pc = "idle"
    /\ last.op = "push" /\ last.ret = 1
    /\ Len(blocks) = 2
    /\ arena_total_capacity(blocks) > blocks[2].capacity
    /\ regions = {}

\* the positions of an event in a sequence of events
Positions(events, e, i) ==
    {k \in DOMAIN events : events[k] = [ev |-> e, blk |-> i]}

\* C13: arena_destroy on an arena with at least one block gives every
\* block's buffer and every block's record to the release function exactly
\* once, touches no block after its record was released, leaves nothing
\* unreleased, and leaves head null, block count 0 and total capacity 0.
C13_DestroyReleasesAll ==
    (st = "none" /\ last.op = "destroy") =>
       /\ last.n >= 1
       /\ \A i \in 1 .. last.n :
             /\ Cardinality(Positions(last.events, "free_data", i)) = 1
             /\ Cardinality(Positions(last.events, "free_rec", i)) = 1
             /\ \A k \in DOMAIN last.events :
                   \A f \in Positions(last.events, "free_rec", i) :
                      last.events[k].blk = i => k <= f
       /\ \A k \in DOMAIN last.events : last.events[k].blk \in 1 .. last.n
       /\ last.releases = 2 * last.n
       /\ live = 0
       /\ blocks = <<>>
       /\ arena_block_count(blocks) = 0
       /\ arena_total_capacity(blocks) = 0

\* an arena with two blocks was destroyed
C13_Witness ==
    /\ st = "none" /\ last.op = "destroy"
    /\ last.n = 2
    /\ Len(last.events) > 0

\* C14: arena_alloc_raw(ar, 0, alignment) returns null in every state of the
\* arena and for every alignment, calls the reserve function not at all,
\* and changes neither the block count, nor the total capacity, nor any
\* block's offset.
C14_ZeroSizeNoEffect ==
    [][\A a \in ZeroAligns :
          ZeroAlloc(a) =>
             /\ pc' = "idle"
             /\ last'.op = "alloc" /\ last'.n = 0 /\ last'.a = a
             /\ last'.ret = NULL
             /\ last'.reserves = 0 /\ last'.releases = 0
             /\ live' = live
             /\ blocks' = blocks
             /\ arena_block_count(blocks') = arena_block_count(blocks)
             /\ arena_total_capacity(blocks') = arena_total_capacity(blocks)
             /\ regions' = regions]_vars

\* a request of size 0 returned on a chain of two blocks of which the head
\* is partly used
C14_Witness ==
    /\ st = "live" /\ pc = "idle"
    /\ last.op = "alloc" /\ last.n = 0 /\ last.a = 16
    /\ last.ret = NULL
    /\ Len(blocks) = 2
    /\ blocks[1].offset > 0 /\ blocks[1].offset < blocks[1].capacity

\* C15: when the reserve function fails in arena_create, for the block
\* record or for the buffer, the arena returned is the empty one: head is
\* null, the block count is 0 and the total capacity is 0.
C15_FailedCreateIsEmpty ==
    (st = "live" /\ pc = "idle" /\ last.op = "create" /\ last.resfail) =>
       /\ blocks = <<>>
       /\ arena_block_count(blocks) = 0
       /\ arena_total_capacity(blocks) = 0

\* arena_create of a non-zero capacity got the record but not the buffer
C15_Witness ==
    /\ st = "live" /\ pc = "idle" /\ last.op = "create" /\ last.resfail
    /\ last.n > 0
    /\ last.reserves = 2 /\ last.releases = 1
    /\ blocks = <<>>

\* C16: for a capacity c > 0 and a reserve function that succeeds,
\* arena_create(c) gives an arena with block count 1, total capacity c and
\* a head offset of 0, also when it follows the arena_destroy of an arena
\* with any history.
C16_CreateGivesOneBlock ==
    (st = "live" /\ pc = "idle" /\ last.op = "create" /\ ~last.resfail
       /\ last.n > 0) =>
       /\ Len(blocks) = 1
       /\ arena_block_count(blocks) = 1
       /\ arena_total_capacity(blocks) = last.n
       /\ blocks[1].capacity = last.n
       /\ blocks[1].offset = 0
       /\ regions = {}

\* arena_create succeeded after an arena of two blocks was destroyed
C16_Witness ==
    /\ st = "live" /\ pc = "idle" /\ last.op = "create" /\ ~last.resfail
    /\ last.n > 0
    /\ last.after = 2
    /\ Len(blocks) = 1

\* C17: arena_create with a capacity of 0 reserves a block whose capacity
\* is a non-zero minimum: when the reserve function succeeds the block
\* count is 1 and the total capacity is not 0.
C17_ZeroCapacityGetsMinimum ==
    (st = "live" /\ pc = "idle" /\ last.op = "create" /\ ~last.resfail
       /\ last.n = 0) =>
       /\ arena_block_count(blocks) = 1
       /\ arena_total_capacity(blocks) > 0

\* a request of the script of test.c returned a region and no arena_reset
\* happened since the arena_create
ScriptReturned(k) ==
    /\ st = "live" /\ pc = "idle"
    /\ last.op = "alloc" /\ last.ret # NULL
    /\ Cardinality(regions) = k

\* C18 as stated: from arena_create(200), the requests of 49 * 4, 4 and 4
\* bytes (alignment 4) all fit the initial block, so the block count is
\* still 1 after them, and a following request of 120 bytes without a reset
\* in between grows the arena to a block count of exactly 2.
C18_ScriptFitsOneBlock ==
    /\ \A k \in DOMAIN TestScript :
          ScriptReturned(k) /\ <<last.n, last.a>> = TestScript[k] =>
             arena_block_count(blocks) = 1
    /\ ScriptReturned(Len(TestScript) + 1) =>
          arena_block_count(blocks) = 2

\* C18 amended: from arena_create(200), the requests of 49 * 4 and 4 bytes
\* fill the initial block (block count 1); the second request of 4 bytes
\* already pushes a block (block count 2, as test.c asserts), and a
\* following request of 120 bytes without a reset in between pushes another
\* one: the block count is exactly 3.
C18_ScriptGrowsTwice ==
    /\ \A k \in {1, 2} :
          ScriptReturned(k) /\ <<last.n, last.a>> = TestScript[k] =>
             /\ arena_block_count(blocks) = 1
             /\ last.depth = 0
    /\ ScriptReturned(2) /\ <<last.n, last.a>> = TestScript[2] =>
          blocks[1].offset = blocks[1].capacity
    /\ ScriptReturned(3) =>
          /\ arena_block_count(blocks) = 2
          /\ last.depth = 1
    /\ ScriptReturned(4) =>
          /\ <<last.n, last.a>> = LargeRequest
          /\ arena_block_count(blocks) = 3
          /\ last.depth = 1

\* the request of 120 bytes returned after the three requests of the script
C18_Witness ==
    /\ ScriptReturned(4)
    /\ <<last.n, last.a>> = LargeRequest
    /\ Len(blocks) = 3
    /\ blocks[3].capacity = TestCapacity

\* what is left of a block is at least padding + size, as integers
Remaining(blk, nbytes, alignment) ==
    LET cur     == blk.data + blk.offset
        mod     == cur % alignment
        padding == IF mod > 0 THEN alignment - mod ELSE 0
    IN  blk.capacity - blk.offset >= padding + nbytes

\* the blocks of the chain a request fits in
FitSet(nbytes, alignment) ==
    {i \in DOMAIN blocks : Remaining(blocks[i], nbytes, alignment)}

\* C19: allocation is first-fit over the whole chain from head to tail: the
\* region is carved from the first block whose remaining space is at least
\* padding + size, also when that block is older than head, and a new block
\* is reserved if and only if no block of the chain fits.
C19_FirstFit ==
    [][\A r \in Requests :
          (r[1] > 0 /\ Alloc(r[1], r[2])) =>
             IF FitSet(r[1], r[2]) = {}
             THEN pc' = "grow"
             ELSE /\ pc' = "idle"
                  /\ last'.ret # NULL
                  /\ last'.depth = 0 /\ last'.reserves = 0
                  /\ last'.idx \in FitSet(r[1], r[2])
                  /\ \A i \in FitSet(r[1], r[2]) : last'.idx <= i
                  /\ \A i \in DOMAIN blocks :
                        i # last'.idx => blocks'[i] = blocks[i]]_vars

\* C20: a successful allocation that pushes no block changes exactly one
\* block's offset, increasing it by padding + size with 0 <= padding <
\* alignment, and leaves every other block's offset and all capacities,
\* buffers and the order of the blocks unchanged; between two resets no
\* block's offset ever decreases.
C20_OneOffsetAdvances ==
    [][/\ \A r \in Requests :
             (Alloc(r[1], r[2]) /\ pc' = "idle" /\ last'.ret # NULL) =>
                /\ Len(blocks') = Len(blocks)
                /\ \E i \in DOMAIN blocks :
                      /\ \E padding \in 0 .. (r[2] - 1) :
                            blocks'[i].offset
                               = blocks[i].offset + padding + r[1]
                      /\ blocks'[i].data = blocks[i].data
                      /\ blocks'[i].capacity = blocks[i].capacity
                      /\ \A j \in DOMAIN blocks :
                            j # i => blocks'[j] = blocks[j]
       /\ (st = "live" /\ st' = "live" /\ ~Reset) =>
             /\ Len(blocks') >= Len(blocks)
             /\ \A i \in DOMAIN blocks :
                   blocks'[i + Len(blocks') - Len(blocks)].offset
                      >= blocks[i].offset]_vars

\* C21: between operations the number of reservations obtained from the
\* reserve function and not yet released is exactly 2 * arena_block_count,
\* one record and one buffer per block of the chain; when the record of a
\* new block was reserved and the reservation of its buffer failed, the
\* record was released before the failure was reported.
C21_TwoReservationsPerBlock ==
    /\ pc = "idle" => live = 2 * arena_block_count(blocks)
    /\ (pc = "idle" /\ last.op \in {"create", "push"} /\ last.resfail
          /\ last.reserves = 2) =>
          last.releases = 1

\* arena_push_block got the record but not the buffer of a second block
C21_Witness ==
    /\ st = "live" /\ pc = "idle"
    /\ last.op = "push" /\ last.resfail
    /\ last.reserves = 2 /\ last.releases = 1
    /\ Len(blocks) = 1
    /\ live = 2

====
